---- MODULE Spec2Model ----
(***************************************************************************)
(* Model of the vibe-check-movies server (server/index.js):                *)
(* the sessions / participants store, the request handlers of the          *)
(* session state machine, the recommendation synthesizer and the           *)
(* retention sweep.                                                        *)
(*                                                                         *)
(* Scheduling: Node runs one handler at a time and better-sqlite3 is       *)
(* synchronous, so a handler runs atomically up to its only suspension     *)
(* point, `await generateResults(...)`.  A handler that suspends is kept   *)
(* in `pending` and finishes in a separate Resume action, so every other   *)
(* handler and the sweep can run in between.                               *)
(***************************************************************************)
EXTENDS Integers, Sequences, FiniteSets, Bags, TLC

\* ---------------------------------------------------------------- bounds
MaxSessions == 2        \* sessions ever created
MaxParticipants == 2    \* participants ever created
MaxPending == 2         \* handlers suspended on the synthesis call at once
MaxSynth == 2           \* synthesis calls SubmitAnswers makes per session
MaxTicks == 1           \* clock advances
MaxList == 2            \* participants handed to the synthesizer on its own
MaxText == 3            \* tokens of a completion text handed to the synthesizer on its own
MaxTail == 2            \* characters after the padding of a name handed to sanitize on its own

\* ------------------------------------------------------ program constants
RetentionSecs == 24 * 60 * 60
MaxNameLen == 50

\* One clock advance: just over the retention period, so that a session is
\* either younger or older than the cutoff of a sweep.
TickSecs == RetentionSecs + 1

\* ------------------------------------------------------------- JS values
NullResults == [kind |-> "null"]
NullAnswers == "null"
AnswerVals == {"love"}
MoreAnswerVals == {"love", "pass"}

Str(cs) == [type |-> "string", chars |-> cs]
NotAString == [type |-> "undefined", chars |-> <<>>]

Whitespace == {" "}

\* ----------------------------------------------------------- sanitize()
RECURSIVE ReplaceAll(_, _, _)
ReplaceAll(s, c, r) ==
    IF s = <<>> THEN <<>>
    ELSE (IF Head(s) = c THEN r ELSE <<Head(s)>>) \o ReplaceAll(Tail(s), c, r)

RECURSIVE TrimStart(_)
TrimStart(s) ==
    IF s # <<>> /\ Head(s) \in Whitespace THEN TrimStart(Tail(s)) ELSE s

RECURSIVE TrimEnd(_)
TrimEnd(s) ==
    IF s # <<>> /\ s[Len(s)] \in Whitespace
    THEN TrimEnd(SubSeq(s, 1, Len(s) - 1)) ELSE s

Trim(s) == TrimEnd(TrimStart(s))

Slice(s, n) == SubSeq(s, 1, IF Len(s) < n THEN Len(s) ELSE n)

sanitize(str) ==
    IF str.type # "string" THEN <<>>
    ELSE LET a == ReplaceAll(str.chars, "&", <<"&", "a", "m", "p", ";">>)
             b == ReplaceAll(a, "<", <<"&", "l", "t", ";">>)
             c == ReplaceAll(b, ">", <<"&", "g", "t", ";">>)
             d == ReplaceAll(c, "\"", <<"&", "q", "u", "o", "t", ";">>)
             e == ReplaceAll(d, "'", <<"&", "#", "x", "2", "7", ";">>)
         IN  Slice(Trim(e), MaxNameLen)

\* ------------------------------------------------------------- callAI()
\* The completion service as seen by callAI: the key may be missing, the
\* fetch (or the decoding of its body) may throw, and otherwise the reply
\* carries a content text (empty or absent content is the empty text).
\* A text is a sequence of tokens: "{" and "}" are braces, "M" is a
\* well-formed member list with the three keys of the output contract,
\* "w" is any other run of characters.
NoKey == [key |-> FALSE, throws |-> FALSE, content |-> <<>>]
NetworkError == [key |-> TRUE, throws |-> TRUE, content |-> <<>>]
Reply(text) == [key |-> TRUE, throws |-> FALSE, content |-> text]

NullText == [isNull |-> TRUE, text |-> <<>>]
Text(t) == [isNull |-> FALSE, text |-> t]

callAI(service) ==
    IF ~service.key THEN NullText
    ELSE IF service.throws THEN NullText
    ELSE IF service.content = <<>> THEN NullText
    ELSE Text(service.content)

\* ---------------------------------------------------- generateResults()
\* result.match(/\{[\s\S]*\}/): from the first "{" to the last "}" after it.
Positions(t, tok) == {i \in 1..Len(t) : t[i] = tok}
SetMin(S) == CHOOSE x \in S : \A y \in S : x <= y
SetMax(S) == CHOOSE x \in S : \A y \in S : y <= x

HasJsonMatch(t) ==
    /\ Positions(t, "{") # {}
    /\ \E j \in Positions(t, "}") : j > SetMin(Positions(t, "{"))

JsonMatch(t) ==
    SubSeq(t, SetMin(Positions(t, "{")), SetMax(Positions(t, "}")))

\* JSON.parse of the matched span: the span is a JSON object exactly when it
\* is "{}" or one pair of braces around a well-formed member list.
JsonParses(span) == span \in {<<"{", "}">>, <<"{", "M", "}">>}

Names(ps) == [i \in 1..Len(ps) |-> ps[i].name]
Snapshot(ps) == [i \in 1..Len(ps) |-> [id |-> ps[i].id, answers |-> ps[i].answers]]

\* The object a successful parse yields.  `from` records the participant
\* data embedded in the prompt the text answers.
ParsedObject(span, ps) ==
    IF span = <<"{", "}">>
    THEN [kind |-> "object", group_summary |-> "", recommendations |-> 0,
          individual_writeups |-> <<>>, from |-> Snapshot(ps)]
    ELSE [kind |-> "object", group_summary |-> "ai summary", recommendations |-> 5,
          individual_writeups |-> Names(ps), from |-> Snapshot(ps)]

\* A plausible slip: the null of a failed completion call is handed on
\* instead of the fallback object.
generateResults_NoFallback(ps, service) ==
    IF callAI(service).isNull
    THEN NullResults
    ELSE [kind |-> "object", group_summary |-> "Analysis pending",
          recommendations |-> 0, individual_writeups |-> <<>>,
          from |-> Snapshot(ps)]

generateResults(ps, service) ==
    LET result == callAI(service) IN
    IF result.isNull
    THEN [kind |-> "object",
          group_summary |-> "Could not generate recommendations. Check server configuration.",
          recommendations |-> 0,
          individual_writeups |-> Names(ps), from |-> Snapshot(ps)]
    ELSE IF HasJsonMatch(result.text)
         THEN IF JsonParses(JsonMatch(result.text))
              THEN ParsedObject(JsonMatch(result.text), ps)
              ELSE [kind |-> "object", group_summary |-> "Analysis generated",
                    recommendations |-> 0, individual_writeups |-> <<>>,
                    from |-> Snapshot(ps)]
         ELSE [kind |-> "object", group_summary |-> "Analysis pending",
               recommendations |-> 0, individual_writeups |-> <<>>,
               from |-> Snapshot(ps)]

\* ------------------------------------------------------------------ state
VARIABLES
    sessions,      \* table sessions: id -> row
    participants,  \* table participants: id -> row
    nextSid,       \* next fresh session id (nanoid never repeats)
    nextPid,       \* next fresh participant id
    now,           \* wall clock, epoch seconds
    pending,       \* bag of the handlers suspended on `await generateResults(...)`
    resp,          \* what the last step answered to its caller
    emitted,       \* the events the last step emitted, in order
    synthCalls,    \* per session id: generateResults calls made by SubmitAnswers
    readyEvents,   \* per session id: results_ready events emitted by SubmitAnswers
    probe          \* a direct call of generateResults: its arguments and its result

vars == <<sessions, participants, nextSid, nextPid, now, pending, resp,
          emitted, synthCalls, readyEvents, probe>>

SessionIds == 1..MaxSessions
ParticipantIds == 1..MaxParticipants

RawNames == {NotAString, Str(<<" ">>), Str(<<" ", "a">>)}

Services == {NetworkError, Reply(<<"w", "{", "M", "}">>)}

\* code 0: the handler is suspended and has not answered yet
NoResp == [op |-> "none", code |-> 0, error |-> "", allCompleted |-> FALSE]
Answer(op, code, error, all) ==
    [op |-> op, code |-> code, error |-> error, allCompleted |-> all]

\* ----------------------------------------------------------- store reads
RECURSIVE Ascending(_)
Ascending(S) ==
    IF S = {} THEN <<>> ELSE <<SetMin(S)>> \o Ascending(S \ {SetMin(S)})

Row(ptab, p) ==
    [id |-> p, name |-> ptab[p].name, answers |-> ptab[p].answers,
     completed |-> ptab[p].completed]

\* SELECT * FROM participants WHERE session_id = ?  (rows in insertion order)
RosterIds(ptab, id) == {p \in DOMAIN ptab : ptab[p].session_id = id}
Roster(ptab, id) ==
    LET ids == Ascending(RosterIds(ptab, id))
    IN  [i \in 1..Len(ids) |-> Row(ptab, ids[i])]

\* SELECT * FROM participants WHERE session_id = ? AND completed = 1
CompletedIds(ptab, id) == {p \in RosterIds(ptab, id) : ptab[p].completed}

\* A plausible slip: the `AND completed = 1` of the query is left out.
CompletedRoster_All(ptab, id) == Roster(ptab, id)

CompletedRoster(ptab, id) ==
    LET ids == Ascending(CompletedIds(ptab, id))
    IN  [i \in 1..Len(ids) |-> Row(ptab, ids[i])]

\* A plausible slip: `some` for `every`.
Every_Some(ps) == \E i \in 1..Len(ps) : ps[i].completed

\* participants.every(p => p.completed)
Every(ps) == \A i \in 1..Len(ps) : ps[i].completed

\* A plausible slip: the test of the status is inverted.
ShouldSynthesize_WhenComplete(allCompleted, status) ==
    allCompleted /\ status = "complete"

\* A plausible slip: the check of the status read before the flip is left out.
ShouldSynthesize_Unguarded(allCompleted, status) == allCompleted

\* if (allCompleted && session.status !== 'complete')
ShouldSynthesize(allCompleted, status) == allCompleted /\ status # "complete"

Suspended == BagToSet(pending)
Suspend(h) == pending (+) SetToBag({h})
Resume(h) == pending (-) SetToBag({h})

NoProbe == [called |-> FALSE]

Extend(f, k, v) == [x \in DOMAIN f \cup {k} |-> IF x = k THEN v ELSE f[x]]
Restrict(f, S) == [x \in S |-> f[x]]

Init ==
    /\ sessions = <<>>
    /\ participants = <<>>
    /\ nextSid = 1
    /\ nextPid = 1
    /\ now = 0
    /\ pending = EmptyBag
    /\ resp = NoResp
    /\ emitted = <<>>
    /\ synthCalls = [s \in SessionIds |-> 0]
    /\ readyEvents = [s \in SessionIds |-> 0]
    /\ probe = NoProbe

\* ------------------------------------------------------------- handlers
\* A plausible slip: the status column defaults to 'collecting'.
NewSession_Collecting(hostName, clock) ==
    [status |-> "collecting", host_name |-> hostName,
     results |-> NullResults, created_at |-> clock]

\* INSERT INTO sessions (id, host_name): status, results and created_at take
\* the defaults of the schema.
NewSession(hostName, clock) ==
    [status |-> "lobby", host_name |-> hostName,
     results |-> NullResults, created_at |-> clock]

\* A plausible slip: the completed column defaults to 1.
NewParticipant_Completed(session_id, name) ==
    [session_id |-> session_id, name |-> name,
     answers |-> NullAnswers, completed |-> TRUE]

\* INSERT INTO participants (id, session_id, name): answers and completed
\* take the defaults of the schema.
NewParticipant(session_id, name) ==
    [session_id |-> session_id, name |-> name,
     answers |-> NullAnswers, completed |-> FALSE]

\* POST /api/session
CreateSession(raw) ==
    LET hostName == sanitize(raw) IN
    IF Len(hostName) < 1
    THEN /\ resp' = Answer("create", 400, "Name is required", FALSE)
         /\ emitted' = <<>>
         /\ UNCHANGED <<sessions, participants, nextSid, nextPid, now, pending,
                        synthCalls, readyEvents, probe>>
    ELSE /\ nextSid <= MaxSessions
         /\ nextPid <= MaxParticipants
         /\ sessions' = Extend(sessions, nextSid, NewSession(hostName, now))
         /\ participants' = Extend(participants, nextPid,
                                   NewParticipant(nextSid, hostName))
         /\ nextSid' = nextSid + 1
         /\ nextPid' = nextPid + 1
         /\ resp' = Answer("create", 200, "", FALSE)
         /\ emitted' = <<>>
         /\ UNCHANGED <<now, pending, synthCalls, readyEvents, probe>>

\* A plausible slip: the lookup of the session is left out.
JoinSession_NoLookup(id, raw) ==
    LET name == sanitize(raw) IN
    IF Len(name) < 1
    THEN /\ resp' = Answer("join", 400, "Name is required", FALSE)
         /\ emitted' = <<>>
         /\ UNCHANGED <<sessions, participants, nextSid, nextPid, now, pending,
                        synthCalls, readyEvents, probe>>
    ELSE /\ nextPid <= MaxParticipants
         /\ participants' = Extend(participants, nextPid, NewParticipant(id, name))
         /\ nextPid' = nextPid + 1
         /\ emitted' = <<[type |-> "participant_joined", room |-> id, name |-> name]>>
         /\ resp' = Answer("join", 200, "", FALSE)
         /\ UNCHANGED <<sessions, nextSid, now, pending, synthCalls, readyEvents,
                        probe>>

\* POST /api/session/:id/join
JoinSession(id, raw) ==
    LET name == sanitize(raw) IN
    IF Len(name) < 1
    THEN /\ resp' = Answer("join", 400, "Name is required", FALSE)
         /\ emitted' = <<>>
         /\ UNCHANGED <<sessions, participants, nextSid, nextPid, now, pending,
                        synthCalls, readyEvents, probe>>
    ELSE IF id \notin DOMAIN sessions
    THEN /\ resp' = Answer("join", 404, "Session not found", FALSE)
         /\ emitted' = <<>>
         /\ UNCHANGED <<sessions, participants, nextSid, nextPid, now, pending,
                        synthCalls, readyEvents, probe>>
    ELSE /\ nextPid <= MaxParticipants
         /\ participants' = Extend(participants, nextPid, NewParticipant(id, name))
         /\ nextPid' = nextPid + 1
         /\ emitted' = <<[type |-> "participant_joined", room |-> id, name |-> name]>>
         /\ resp' = Answer("join", 200, "", FALSE)
         /\ UNCHANGED <<sessions, nextSid, now, pending, synthCalls, readyEvents,
                        probe>>

\* POST /api/session/:id/generate
StartQuiz(id) ==
    IF id \notin DOMAIN sessions
    THEN /\ resp' = Answer("generate", 404, "Session not found", FALSE)
         /\ emitted' = <<>>
         /\ UNCHANGED <<sessions, participants, nextSid, nextPid, now, pending,
                        synthCalls, readyEvents, probe>>
    ELSE /\ sessions' = [sessions EXCEPT ![id].status = "collecting"]
         /\ emitted' = <<[type |-> "questions_ready", room |-> id]>>
         /\ resp' = Answer("generate", 200, "", FALSE)
         /\ UNCHANGED <<participants, nextSid, nextPid, now, pending, synthCalls,
                        readyEvents, probe>>

\* A plausible slip: the lookup matches the participant id alone.
FindParticipant_AnySession(ptab, participantId, id) ==
    participantId \in DOMAIN ptab

\* SELECT * FROM participants WHERE id = ? AND session_id = ?
FindParticipant(ptab, participantId, id) ==
    participantId \in DOMAIN ptab /\ ptab[participantId].session_id = id

\* A plausible slip: the update stores the answers and leaves the flag.
UpdateAnswers_AnswersOnly(ptab, participantId, answers) ==
    [ptab EXCEPT ![participantId].answers = answers]

\* db.prepare('UPDATE participants SET answers = ?, completed = 1 WHERE id = ?')
UpdateAnswers(ptab, participantId, answers) ==
    [ptab EXCEPT ![participantId].answers = answers,
                 ![participantId].completed = TRUE]

\* POST /api/session/:id/submit, up to `await generateResults(participants)`
SubmitAnswers(id, participantId, answers) ==
    IF ~FindParticipant(participants, participantId, id)
    THEN /\ resp' = Answer("submit", 404, "Participant not found", FALSE)
         /\ emitted' = <<>>
         /\ UNCHANGED <<sessions, participants, nextSid, nextPid, now, pending,
                        synthCalls, readyEvents, probe>>
    ELSE LET participant == participants[participantId]
             ptab == UpdateAnswers(participants, participantId, answers)
             found == id \in DOMAIN sessions
             status == IF found THEN sessions[id].status ELSE "undefined"
             roster == Roster(ptab, id)
             allCompleted == Every(roster)
         IN  /\ participants' = ptab
             /\ sessions' = IF allCompleted /\ found
                            THEN [sessions EXCEPT ![id].status = "complete"]
                            ELSE sessions
             /\ emitted' = <<[type |-> "answer_submitted", room |-> id,
                              participantName |-> participant.name]>>
             /\ IF allCompleted /\ ~found
                THEN \* session.status of an undefined row throws
                     /\ resp' = Answer("submit", 500, "TypeError", allCompleted)
                     /\ UNCHANGED <<pending, synthCalls>>
                ELSE IF ShouldSynthesize(allCompleted, status)
                THEN /\ BagCardinality(pending) < MaxPending
                     /\ synthCalls[id] < MaxSynth
                     /\ pending' = Suspend(
                            [kind |-> "submit", id |-> id,
                             participants |-> roster, allCompleted |-> allCompleted])
                     /\ synthCalls' = [synthCalls EXCEPT ![id] = @ + 1]
                     /\ resp' = Answer("submit", 0, "", allCompleted)
                ELSE /\ resp' = Answer("submit", 200, "", allCompleted)
                     /\ UNCHANGED <<pending, synthCalls>>
             /\ UNCHANGED <<nextSid, nextPid, now, readyEvents, probe>>

\* A plausible slip: the update writes the status and leaves the results.
WriteResults_StatusOnly(stab, id, results) ==
    IF id \in DOMAIN stab
    THEN [stab EXCEPT ![id].status = "complete"]
    ELSE stab

\* A plausible slip: the event is emitted and the update is left out.
WriteResults_Skipped(stab, id, results) == stab

\* A plausible slip: the update writes the results and leaves the status.
WriteResults_NoStatus(stab, id, results) ==
    IF id \in DOMAIN stab
    THEN [stab EXCEPT ![id].results = results]
    ELSE stab

\* db.prepare('UPDATE sessions SET results = ?, status = ? WHERE id = ?')
WriteResults(stab, id, results) ==
    IF id \in DOMAIN stab
    THEN [stab EXCEPT ![id].results = results, ![id].status = "complete"]
    ELSE stab

\* POST /api/session/:id/submit, from the return of generateResults on
SubmitResume(h, service) ==
    /\ h \in Suspended
    /\ h.kind = "submit"
    /\ LET results == generateResults(h.participants, service)
       IN  /\ sessions' = WriteResults(sessions, h.id, results)
           /\ emitted' = <<[type |-> "results_ready", room |-> h.id,
                            results |-> results]>>
           /\ readyEvents' = [readyEvents EXCEPT ![h.id] = @ + 1]
           /\ resp' = Answer("submit", 200, "", h.allCompleted)
    /\ pending' = Resume(h)
    /\ UNCHANGED <<participants, nextSid, nextPid, now, synthCalls, probe>>

\* POST /api/session/:id/close, up to `await generateResults(participants)`
CloseEarly(id) ==
    IF id \notin DOMAIN sessions
    THEN /\ resp' = Answer("close", 404, "Session not found", FALSE)
         /\ emitted' = <<>>
         /\ UNCHANGED <<sessions, participants, nextSid, nextPid, now, pending,
                        synthCalls, readyEvents, probe>>
    ELSE IF Len(CompletedRoster(participants, id)) = 0
    THEN /\ resp' = Answer("close", 400, "No completed participants", FALSE)
         /\ emitted' = <<>>
         /\ UNCHANGED <<sessions, participants, nextSid, nextPid, now, pending,
                        synthCalls, readyEvents, probe>>
    ELSE /\ BagCardinality(pending) < MaxPending
         /\ pending' = Suspend(
                [kind |-> "close", id |-> id,
                 participants |-> CompletedRoster(participants, id),
                 allCompleted |-> FALSE])
         /\ resp' = Answer("close", 0, "", FALSE)
         /\ emitted' = <<>>
         /\ UNCHANGED <<sessions, participants, nextSid, nextPid, now, synthCalls,
                        readyEvents, probe>>

\* POST /api/session/:id/close, from the return of generateResults on
CloseResume(h, service) ==
    /\ h \in Suspended
    /\ h.kind = "close"
    /\ LET results == generateResults(h.participants, service)
       IN  /\ sessions' = WriteResults(sessions, h.id, results)
           /\ emitted' = <<[type |-> "results_ready", room |-> h.id,
                            results |-> results]>>
           /\ resp' = Answer("close", 200, "", FALSE)
    /\ pending' = Resume(h)
    /\ UNCHANGED <<participants, nextSid, nextPid, now, synthCalls, readyEvents,
                   probe>>

\* GET /api/session/:id
GetSession(id) ==
    /\ resp' = IF id \in DOMAIN sessions
               THEN Answer("session", 200, "", FALSE)
               ELSE Answer("session", 404, "Session not found", FALSE)
    /\ emitted' = <<>>
    /\ UNCHANGED <<sessions, participants, nextSid, nextPid, now, pending,
                   synthCalls, readyEvents, probe>>

\* GET /api/session/:id/results
GetResults(id) ==
    /\ resp' = IF id \in DOMAIN sessions
               THEN Answer("results", 200, "", FALSE)
               ELSE Answer("results", 404, "Session not found", FALSE)
    /\ emitted' = <<>>
    /\ UNCHANGED <<sessions, participants, nextSid, nextPid, now, pending,
                   synthCalls, readyEvents, probe>>

\* ------------------------------------------------------ retention sweep
\* A plausible slip: the cutoff is the clock itself, the period not subtracted.
OldSessions_NoOffset(stab, clock) ==
    {s \in DOMAIN stab : stab[s].created_at < clock}

OldSessions(stab, clock) ==
    LET cutoff == clock - RetentionSecs
    IN  {s \in DOMAIN stab : stab[s].created_at < cutoff}

\* A plausible slip: the sweep deletes the sessions and forgets their
\* participants.
cleanupOldSessions_SessionsOnly ==
    /\ sessions' = Restrict(sessions, DOMAIN sessions \ OldSessions(sessions, now))
    /\ resp' = NoResp
    /\ emitted' = <<>>
    /\ UNCHANGED <<participants, nextSid, nextPid, now, pending, synthCalls,
                   readyEvents, probe>>

cleanupOldSessions ==
    LET old == OldSessions(sessions, now) IN
    /\ participants' = Restrict(participants,
            {p \in DOMAIN participants : participants[p].session_id \notin old})
    /\ sessions' = Restrict(sessions, DOMAIN sessions \ old)
    /\ resp' = NoResp
    /\ emitted' = <<>>
    /\ UNCHANGED <<nextSid, nextPid, now, pending, synthCalls, readyEvents, probe>>

\* Time passes.
Tick ==
    /\ now < MaxTicks * TickSecs
    /\ now' = now + TickSecs
    /\ resp' = NoResp
    /\ emitted' = <<>>
    /\ UNCHANGED <<sessions, participants, nextSid, nextPid, pending, synthCalls,
                   readyEvents, probe>>

\* ---------------------------------------------------------- specification
Next ==
    \/ \E raw \in RawNames : CreateSession(raw)
    \/ \E id \in SessionIds, raw \in RawNames : JoinSession(id, raw)
    \/ \E id \in SessionIds : StartQuiz(id)
    \/ \E id \in SessionIds, p \in ParticipantIds, a \in AnswerVals :
            SubmitAnswers(id, p, a)
    \/ \E h \in Suspended, service \in Services : SubmitResume(h, service)
    \/ \E id \in SessionIds : CloseEarly(id)
    \/ \E h \in Suspended, service \in Services : CloseResume(h, service)
    \/ \E id \in SessionIds : GetSession(id)
    \/ \E id \in SessionIds : GetResults(id)
    \/ cleanupOldSessions
    \/ Tick

Spec == Init /\ [][Next]_vars

\* The synthesis call of a submit handler returns and the event loop resumes
\* the handler that awaits it: a suspended submit handler of a session does
\* not wait forever.  Nothing is assumed of the other handlers.
SynthesisReturns ==
    \A id \in SessionIds :
        WF_vars(\E h \in Suspended, service \in Services :
                    h.id = id /\ SubmitResume(h, service))

\* Every handler that writes, the sweep and the clock; the two read-only
\* handlers are left out.
NextLive ==
    \/ \E raw \in RawNames : CreateSession(raw)
    \/ \E id \in SessionIds, raw \in RawNames : JoinSession(id, raw)
    \/ \E id \in SessionIds : StartQuiz(id)
    \/ \E id \in SessionIds, p \in ParticipantIds, a \in AnswerVals :
            SubmitAnswers(id, p, a)
    \/ \E h \in Suspended, service \in Services : SubmitResume(h, service)
    \/ \E id \in SessionIds : CloseEarly(id)
    \/ \E h \in Suspended, service \in Services : CloseResume(h, service)
    \/ cleanupOldSessions
    \/ Tick

SpecLive == Init /\ [][NextLive]_vars /\ SynthesisReturns

\* The submitters' race on its own: the host starts the quiz from the lobby
\* and nobody closes early, so that only SubmitAnswers calls interleave.
NextRace ==
    \/ \E raw \in RawNames : CreateSession(raw)
    \/ \E id \in SessionIds, raw \in RawNames : JoinSession(id, raw)
    \/ \E id \in DOMAIN sessions : sessions[id].status = "lobby" /\ StartQuiz(id)
    \/ \E id \in SessionIds, p \in ParticipantIds, a \in AnswerVals :
            SubmitAnswers(id, p, a)
    \/ \E h \in Suspended, service \in Services : SubmitResume(h, service)

SpecRace == Init /\ [][NextRace]_vars

\* Every execution without a CloseEarly call.
NextNoClose ==
    \/ \E raw \in RawNames : CreateSession(raw)
    \/ \E id \in SessionIds, raw \in RawNames : JoinSession(id, raw)
    \/ \E id \in SessionIds : StartQuiz(id)
    \/ \E id \in SessionIds, p \in ParticipantIds, a \in AnswerVals :
            SubmitAnswers(id, p, a)
    \/ \E h \in Suspended, service \in Services : SubmitResume(h, service)
    \/ \E id \in SessionIds : GetSession(id)
    \/ \E id \in SessionIds : GetResults(id)
    \/ cleanupOldSessions
    \/ Tick

SpecNoClose == Init /\ [][NextNoClose]_vars

\* The submit path under every outcome of the completion service: missing
\* key, failed fetch, empty content, a text without a JSON object, a text
\* whose braces do not parse, and a well-formed reply.
Outcomes ==
    {NoKey, NetworkError, Reply(<<>>), Reply(<<"w">>), Reply(<<"{", "w", "}">>),
     Reply(<<"{", "M", "}">>)}

NextOutcomes ==
    \/ \E raw \in RawNames : CreateSession(raw)
    \/ \E id \in SessionIds, raw \in RawNames : JoinSession(id, raw)
    \/ \E id \in SessionIds : StartQuiz(id)
    \/ \E id \in SessionIds, p \in ParticipantIds, a \in AnswerVals :
            SubmitAnswers(id, p, a)
    \/ \E h \in Suspended, service \in Outcomes : SubmitResume(h, service)
    \/ cleanupOldSessions
    \/ Tick

SpecOutcomes == Init /\ [][NextOutcomes]_vars

\* The sweep at the edge of the retention period: the clock jumps between
\* instants one second before, at, and one second after the age of 24 hours
\* of a session created at 0.
Instants == {0, 1, RetentionSecs - 1, RetentionSecs, RetentionSecs + 1}

Elapse(t) ==
    /\ t > now
    /\ now' = t
    /\ resp' = NoResp
    /\ emitted' = <<>>
    /\ UNCHANGED <<sessions, participants, nextSid, nextPid, pending, synthCalls,
                   readyEvents, probe>>

NextRetention ==
    \/ \E raw \in RawNames : CreateSession(raw)
    \/ \E id \in SessionIds, raw \in RawNames : JoinSession(id, raw)
    \/ \E id \in SessionIds : StartQuiz(id)
    \/ \E id \in SessionIds, p \in ParticipantIds, a \in AnswerVals :
            SubmitAnswers(id, p, a)
    \/ \E h \in Suspended, service \in Services : SubmitResume(h, service)
    \/ cleanupOldSessions
    \/ \E t \in Instants : Elapse(t)

SpecRetention == Init /\ [][NextRetention]_vars

\* Submissions that carry different answers, so that a resubmission can be
\* told from the first submission.
NextResubmit ==
    \/ \E raw \in RawNames : CreateSession(raw)
    \/ \E id \in SessionIds, raw \in RawNames : JoinSession(id, raw)
    \/ \E id \in SessionIds : StartQuiz(id)
    \/ \E id \in SessionIds, p \in ParticipantIds, a \in MoreAnswerVals :
            SubmitAnswers(id, p, a)
    \/ \E h \in Suspended, service \in Services : SubmitResume(h, service)

SpecResubmit == Init /\ [][NextResubmit]_vars

\* sanitize on its own, over names around the length cap: a run of letters
\* of every length up to the cap, followed by a short tail over the
\* characters sanitize treats specially; and a value that is not a string.
NameChars == {"a", " ", "&", "<", ">", "\"", "'"}
Pad(k) == [i \in 1..k |-> "a"]
Tails == UNION {[1..n -> NameChars] : n \in 0..MaxTail}
SanitizeInputs ==
    {NotAString} \cup {Str(Pad(k) \o t) : k \in 0..MaxNameLen, t \in Tails}

Sanitize(raw) ==
    /\ ~probe.called
    /\ probe' = [called |-> TRUE, input |-> raw, output |-> sanitize(raw)]
    /\ UNCHANGED <<sessions, participants, nextSid, nextPid, now, pending, resp,
                   emitted, synthCalls, readyEvents>>

NextSanitize == \E raw \in SanitizeInputs : Sanitize(raw)

SpecSanitize == Init /\ [][NextSanitize]_vars

\* generateResults on its own, over every short participant list and every
\* short completion text.
ProbeNames == {<<"a">>, <<"b">>}
ProbeLists ==
    UNION {{[i \in 1..n |-> [id |-> i, name |-> nm[i], answers |-> an[i],
                             completed |-> TRUE]] :
                nm \in [1..n -> ProbeNames],
                an \in [1..n -> AnswerVals \cup {NullAnswers}]} : n \in 0..MaxList}
Tokens == {"{", "}", "M", "w"}
Texts == UNION {[1..n -> Tokens] : n \in 0..MaxText}
ProbeServices == {NoKey, NetworkError} \cup {Reply(t) : t \in Texts}

Synthesize(ps, service) ==
    /\ probe' = [called |-> TRUE, participants |-> ps, service |-> service,
                 result |-> generateResults(ps, service)]
    /\ UNCHANGED <<sessions, participants, nextSid, nextPid, now, pending, resp,
                   emitted, synthCalls, readyEvents>>

NextSynth == \E ps \in ProbeLists, service \in ProbeServices : Synthesize(ps, service)

SpecSynth == Init /\ [][NextSynth]_vars

\* ================================================================ claims
\* What the claims speak of, read off the tables directly.
Members(ptab, id) == {p \in DOMAIN ptab : ptab[p].session_id = id}
Done(ptab, id) == {p \in Members(ptab, id) : ptab[p].completed}
AllDone(ptab, id) == Members(ptab, id) = Done(ptab, id)
HasResults(stab, id) == stab[id].results # NullResults
SuspendedFor(id, kind) == {h \in Suspended : h.id = id /\ h.kind = kind}
ReadyEvent(id, results) == [type |-> "results_ready", room |-> id, results |-> results]
Rank(status) ==
    CASE status = "lobby" -> 0
      [] status = "collecting" -> 1
      [] status = "complete" -> 2

\* C1: when the SubmitAnswers calls of the last uncompleted participants of a
\* session interleave at the synthesis call, the synthesizer is invoked
\* exactly once for the session, exactly one results_ready event is emitted,
\* and every contender's call returns success.
C1_RaceSynthesizesOnce ==
    /\ [](\A s \in SessionIds :
            /\ synthCalls[s] <= 1
            /\ readyEvents[s] <= 1
            /\ (s \in DOMAIN sessions /\ AllDone(participants, s))
                    => /\ synthCalls[s] = 1
                       /\ (SuspendedFor(s, "submit") = {} => readyEvents[s] = 1))
    /\ [][\A id \in SessionIds, p \in ParticipantIds, a \in AnswerVals :
            (p \in Members(participants, id) /\ SubmitAnswers(id, p, a))
                => (resp'.code \in {0, 200} /\ resp'.error = "")]_vars
    /\ [][\A h \in Suspended, service \in Services :
            SubmitResume(h, service)
                => (resp'.code = 200 /\ resp'.error = ""
                    /\ emitted' = <<ReadyEvent(h.id, generateResults(h.participants, service))>>)]_vars

\* A contender's call returned success while the last submitter's call was
\* suspended on the synthesis of a two-participant session.
C1_Witness ==
    \E h \in Suspended :
        /\ h.kind = "submit"
        /\ Cardinality(Members(participants, h.id)) = 2
        /\ synthCalls[h.id] = 1
        /\ resp.op = "submit" /\ resp.code = 200 /\ resp.allCompleted

\* C2: in every execution without CloseEarly, SubmitAnswers invokes the
\* synthesizer (and so writes results) at most once per session.
C2_SubmitSynthesizesOnce == \A s \in SessionIds : synthCalls[s] <= 1

\* C3: in every reachable state a session's results are non-null if and
\* only if its status is complete.
C3_ResultsIffComplete ==
    \A s \in DOMAIN sessions :
        HasResults(sessions, s) <=> sessions[s].status = "complete"

\* C4: the status of a session never moves backward (complete to collecting
\* or lobby, collecting to lobby).
C4_StatusMonotonic ==
    [][\A s \in DOMAIN sessions :
            s \in DOMAIN sessions'
                => Rank(sessions'[s].status) >= Rank(sessions[s].status)]_vars

\* C5: StartQuiz on a lobby session sets status collecting and emits
\* questions_ready; on a collecting or complete session it emits
\* questions_ready and leaves the session and its participants unchanged.
C5_StartQuizEffect ==
    [][\A id \in DOMAIN sessions :
            StartQuiz(id)
                => /\ emitted' = <<[type |-> "questions_ready", room |-> id]>>
                   /\ IF sessions[id].status = "lobby"
                      THEN sessions'[id].status = "collecting"
                      ELSE sessions' = sessions /\ participants' = participants]_vars

\* C6: in a collecting session a SubmitAnswers that leaves a participant
\* uncompleted returns allCompleted = false and leaves status collecting and
\* results null; the one that completes the last participant returns
\* allCompleted = true and, when it returns, the session is complete with
\* non-null results.
C6_SubmitCompletion ==
    [][/\ \A id \in DOMAIN sessions, p \in ParticipantIds, a \in AnswerVals :
            (/\ sessions[id].status = "collecting"
             /\ p \in Members(participants, id)
             /\ SubmitAnswers(id, p, a))
                => IF Members(participants, id) \ {p} \subseteq Done(participants, id)
                   THEN resp'.allCompleted
                   ELSE /\ resp'.code = 200
                        /\ ~resp'.allCompleted
                        /\ sessions'[id].status = "collecting"
                        /\ ~HasResults(sessions', id)
       /\ \A h \in Suspended, service \in Services :
            (SubmitResume(h, service) /\ h.id \in DOMAIN sessions')
                => /\ resp'.code = 200
                   /\ resp'.allCompleted
                   /\ sessions'[h.id].status = "complete"
                   /\ HasResults(sessions', h.id)]_vars

\* C7: SubmitAnswers flips status to complete and triggers synthesis only if,
\* at the time of its check, every participant of the session's current
\* roster (late joiners included) has completed; a call whose check finds a
\* roster member who has not submitted neither completes the session nor
\* suspends on a synthesis.
C7_CompletionNeedsFullRoster ==
    /\ [][\A id \in SessionIds, p \in ParticipantIds, a \in AnswerVals :
            (/\ SubmitAnswers(id, p, a)
             /\ \/ pending' # pending
                \/ synthCalls' # synthCalls
                \/ resp'.allCompleted
                \/ /\ id \in DOMAIN sessions
                   /\ sessions[id].status # "complete"
                   /\ sessions'[id].status = "complete")
                => AllDone(participants', id)]_vars
    /\ [](\A h \in Suspended :
            h.kind = "submit"
                => /\ h.allCompleted
                   /\ \A i \in 1..Len(h.participants) : h.participants[i].completed)

\* A submission was answered allCompleted = false in a started session whose
\* other roster member has not submitted, and the session is not complete.
C7_Witness ==
    /\ resp.op = "submit" /\ resp.code = 200 /\ ~resp.allCompleted
    /\ \E s \in DOMAIN sessions :
        /\ sessions[s].status = "collecting"
        /\ Cardinality(Done(participants, s)) = 1
        /\ Cardinality(Members(participants, s)) = 2
        /\ emitted = <<[type |-> "answer_submitted", room |-> s,
                        participantName |-> <<"a">>]>>

\* C8 as stated: CloseEarly on a session with a completed participant always
\* leaves the session complete with non-null results when it returns, also
\* when it runs concurrently with the retention sweep.
C8_CloseAlwaysCompletes ==
    [][\A h \in Suspended, service \in Services :
            CloseResume(h, service)
                => /\ resp'.code = 200
                   /\ h.id \in DOMAIN sessions'
                   /\ sessions'[h.id].status = "complete"
                   /\ HasResults(sessions', h.id)]_vars

\* C8 as amended: CloseEarly on a session with a completed participant never
\* fails; it synthesizes over the completed subset, returns success and emits
\* results_ready, and when it returns the session, unless the sweep purged
\* it during the wait, is complete and holds the new results, whatever its
\* status and results were before.
C8_CloseCompletesStoredSession ==
    [][/\ \A id \in DOMAIN sessions :
            (Done(participants, id) # {} /\ CloseEarly(id))
                => /\ resp' = Answer("close", 0, "", FALSE)
                   /\ \E h \in BagToSet(pending') :
                        /\ h.kind = "close" /\ h.id = id
                        /\ {h.participants[i].id : i \in 1..Len(h.participants)}
                                = Done(participants, id)
                        /\ pending' = pending (+) SetToBag({h})
       /\ \A h \in Suspended, service \in Services :
            CloseResume(h, service)
                => /\ resp'.code = 200
                   /\ emitted' = <<ReadyEvent(h.id, generateResults(h.participants, service))>>
                   /\ h.id \in DOMAIN sessions'
                        => /\ sessions'[h.id].status = "complete"
                           /\ sessions'[h.id].results
                                = generateResults(h.participants, service)
                           /\ HasResults(sessions', h.id)]_vars

\* A CloseEarly has returned on a stored session one of whose participants
\* has not submitted, and left it complete with the results it emitted.
C8_Witness ==
    /\ resp.op = "close" /\ resp.code = 200
    /\ Len(emitted) = 1 /\ emitted[1].type = "results_ready"
    /\ emitted[1].room \in DOMAIN sessions
    /\ sessions[emitted[1].room].status = "complete"
    /\ sessions[emitted[1].room].results = emitted[1].results
    /\ \E p \in Members(participants, emitted[1].room) : ~participants[p].completed

\* C9: CloseEarly on a session with zero completed participants fails with
\* the conflict error, runs no synthesis, emits nothing and changes neither
\* the session nor any participant.
C9_CloseWithoutCompletions ==
    [][\A id \in DOMAIN sessions :
            (Done(participants, id) = {} /\ CloseEarly(id))
                => /\ resp' = Answer("close", 400, "No completed participants", FALSE)
                   /\ emitted' = <<>>
                   /\ UNCHANGED <<sessions, participants, pending, synthCalls,
                                  readyEvents>>]_vars

\* A CloseEarly was refused while no participant of any stored session has
\* completed.
C9_Witness ==
    /\ resp = Answer("close", 400, "No completed participants", FALSE)
    /\ DOMAIN sessions # {}
    /\ \A s \in DOMAIN sessions : Done(participants, s) = {}
    /\ pending = EmptyBag

\* The completion call returned null, or a text no JSON object parses from.
NoJsonObject(service) ==
    \/ callAI(service).isNull
    \/ ~HasJsonMatch(callAI(service).text)
    \/ ~JsonParses(JsonMatch(callAI(service).text))

\* C10: when the completion call returns null or a text from which no JSON
\* object can be parsed, the result has empty recommendations, a non-empty
\* group_summary and one individual_writeups entry per input participant.
C10_FallbackShape ==
    (probe.called /\ NoJsonObject(probe.service))
        => /\ probe.result.recommendations = 0
           /\ probe.result.group_summary # ""
           /\ Len(probe.result.individual_writeups) = Len(probe.participants)

\* C11 as stated: whatever the completion service does, generateResults
\* returns a result object, and the SubmitAnswers call that triggered the
\* synthesis returns success and leaves a non-null results value stored.
C11_SynthesisAlwaysPersists ==
    [][\A h \in Suspended, service \in Outcomes :
            SubmitResume(h, service)
                => /\ generateResults(h.participants, service).kind = "object"
                   /\ resp' = Answer("submit", 200, "", TRUE)
                   /\ h.id \in DOMAIN sessions'
                   /\ HasResults(sessions', h.id)]_vars

\* C11 as amended: whatever the completion service does, generateResults
\* returns a result object and the SubmitAnswers call that triggered the
\* synthesis returns success; the session, unless the sweep purged it during
\* the wait, then holds that object as its non-null results.
C11_SynthesisNeverRaises ==
    [][\A h \in Suspended, service \in Outcomes :
            SubmitResume(h, service)
                => /\ generateResults(h.participants, service).kind = "object"
                   /\ resp' = Answer("submit", 200, "", TRUE)
                   /\ emitted' = <<ReadyEvent(h.id, generateResults(h.participants, service))>>
                   /\ h.id \in DOMAIN sessions'
                        => /\ sessions'[h.id].results
                                = generateResults(h.participants, service)
                           /\ HasResults(sessions', h.id)]_vars

\* A submit has returned success after a completion text whose braces did
\* not parse, and the session holds the fallback object.
C11_Witness ==
    /\ resp = Answer("submit", 200, "", TRUE)
    /\ Len(emitted) = 1 /\ emitted[1].type = "results_ready"
    /\ emitted[1].results.group_summary = "Analysis generated"
    /\ emitted[1].room \in DOMAIN sessions
    /\ sessions[emitted[1].room].results = emitted[1].results

\* Age in seconds of a stored session at the clock reading `clock`.
Age(stab, s, clock) == clock - stab[s].created_at

\* C12: after a cleanup pass no session more than 24 hours old and none of
\* its participants remain, every session newer than 24 hours survives
\* unchanged with its participants, and a pass over a store without a
\* session more than 24 hours old (so a second pass) changes nothing.
C12_Retention ==
    [][cleanupOldSessions
        => /\ \A s \in DOMAIN sessions :
                Age(sessions, s, now) > RetentionSecs
                    => /\ s \notin DOMAIN sessions'
                       /\ Members(participants', s) = {}
           /\ \A s \in DOMAIN sessions :
                Age(sessions, s, now) < RetentionSecs
                    => /\ s \in DOMAIN sessions'
                       /\ sessions'[s] = sessions[s]
                       /\ \A p \in Members(participants, s) :
                            /\ p \in DOMAIN participants'
                            /\ participants'[p] = participants[p]
           /\ \A s \in DOMAIN sessions' : Age(sessions', s, now') <= RetentionSecs
           /\ (\A s \in DOMAIN sessions : Age(sessions, s, now) <= RetentionSecs)
                => UNCHANGED <<sessions, participants>>]_vars

\* Two sessions were created a second apart; the sweep has removed the
\* first, 24 hours and a second old, with its participant and kept the
\* second, exactly 24 hours old, with its participant.
C12_Witness ==
    /\ nextSid = 3
    /\ DOMAIN sessions = {2}
    /\ DOMAIN participants = {2}
    /\ participants[2].session_id = 2
    /\ Age(sessions, 2, now) = RetentionSecs
    /\ resp = NoResp

\* C13: in every reachable state every stored participant's session_id names
\* a stored session, so a SubmitAnswers whose participant lookup succeeds
\* always finds its session (it never fails on a missing session row).
C13_ReferentialIntegrity ==
    /\ \A p \in DOMAIN participants : participants[p].session_id \in DOMAIN sessions
    /\ resp.code # 500

\* The sweep has purged the first session with its host while a second
\* session and its host are stored.
C13_Witness ==
    /\ DOMAIN sessions = {2}
    /\ DOMAIN participants = {2}
    /\ participants[2].session_id = 2
    /\ now > RetentionSecs

\* C14: a participant's answers are written once: once a participant has
\* submitted, no step (a second SubmitAnswers of the same participant
\* included) changes that participant's stored answers.
C14_AnswersWrittenOnce ==
    [][\A p \in DOMAIN participants :
            (participants[p].completed /\ p \in DOMAIN participants')
                => participants'[p].answers = participants[p].answers]_vars

\* C15: a participant's completed flag is false at creation (with null
\* answers), becomes true exactly in the step in which that participant's
\* answers are submitted, and is never reset to false.
C15_CompletedMonotonic ==
    /\ [](\A p \in DOMAIN participants :
            participants[p].completed <=> participants[p].answers # NullAnswers)
    /\ [][/\ \A p \in DOMAIN participants' \ DOMAIN participants :
                ~participants'[p].completed
          /\ \A p \in DOMAIN participants \cap DOMAIN participants' :
               /\ participants[p].completed => participants'[p].completed
               /\ (~participants[p].completed /\ participants'[p].completed)
                       => \E a \in AnswerVals :
                            /\ SubmitAnswers(participants[p].session_id, p, a)
                            /\ participants'[p].answers = a
               /\ \A a \in AnswerVals :
                       SubmitAnswers(participants[p].session_id, p, a)
                           => participants'[p].completed]_vars

\* In a session still in the lobby one participant has submitted and is
\* completed while another, who joined, is not and has no answers.
C15_Witness ==
    \E s \in DOMAIN sessions : \E p, q \in Members(participants, s) :
        /\ sessions[s].status = "lobby"
        /\ participants[p].completed /\ participants[p].answers \in AnswerVals
        /\ ~participants[q].completed /\ participants[q].answers = NullAnswers

\* C16: CreateSession with a name whose sanitized form is non-empty creates
\* a session in the lobby with null results and exactly one participant, the
\* host, not completed and without answers; with a name whose sanitized form
\* is empty it fails with the validation error and creates nothing.
C16_CreateSession ==
    [][\A raw \in RawNames :
            CreateSession(raw)
                => IF sanitize(raw) # <<>>
                   THEN /\ resp' = Answer("create", 200, "", FALSE)
                        /\ DOMAIN sessions' = DOMAIN sessions \cup {nextSid}
                        /\ nextSid \notin DOMAIN sessions
                        /\ \A s \in DOMAIN sessions : sessions'[s] = sessions[s]
                        /\ sessions'[nextSid].status = "lobby"
                        /\ sessions'[nextSid].results = NullResults
                        /\ sessions'[nextSid].host_name = sanitize(raw)
                        /\ Cardinality(Members(participants', nextSid)) = 1
                        /\ DOMAIN participants'
                                = DOMAIN participants \cup Members(participants', nextSid)
                        /\ \A p \in DOMAIN participants :
                                participants'[p] = participants[p]
                        /\ \A p \in Members(participants', nextSid) :
                                /\ p \notin DOMAIN participants
                                /\ participants'[p].name = sanitize(raw)
                                /\ ~participants'[p].completed
                                /\ participants'[p].answers = NullAnswers
                   ELSE /\ resp' = Answer("create", 400, "Name is required", FALSE)
                        /\ UNCHANGED <<sessions, participants>>]_vars

\* A second session has just been created next to a first one that has
\* moved on: it is in the lobby with its host as only participant.
C16_Witness ==
    /\ resp = Answer("create", 200, "", FALSE)
    /\ DOMAIN sessions = {1, 2}
    /\ sessions[1].status = "complete"
    /\ sessions[2].status = "lobby" /\ sessions[2].results = NullResults
    /\ Members(participants, 2) = {2}
    /\ ~participants[2].completed

\* C17: JoinSession on an unknown session id fails with the not-found error
\* and JoinSession with a name whose sanitized form is empty fails with the
\* validation error (which is also the answer when both hold); in either
\* case no participant is added, nothing is emitted and the store is
\* unchanged.
C17_JoinRejected ==
    [][\A id \in SessionIds, raw \in RawNames :
            (JoinSession(id, raw) /\ (id \notin DOMAIN sessions \/ sanitize(raw) = <<>>))
                => /\ (sanitize(raw) # <<>>)
                        => resp' = Answer("join", 404, "Session not found", FALSE)
                   /\ (sanitize(raw) = <<>>)
                        => resp' = Answer("join", 400, "Name is required", FALSE)
                   /\ emitted' = <<>>
                   /\ UNCHANGED <<sessions, participants, nextSid, nextPid>>]_vars

\* A join with a valid name was answered not found for a session the sweep
\* had purged, while another session is stored.
C17_Witness ==
    /\ resp = Answer("join", 404, "Session not found", FALSE)
    /\ DOMAIN sessions = {2}
    /\ Cardinality(DOMAIN participants) = 1

\* C18: JoinSession with a valid name on a stored session succeeds whatever
\* the status: it adds exactly one participant, not completed and without
\* answers, emits exactly one participant_joined event on that session's
\* channel, and leaves every session and every other participant unchanged.
C18_JoinEffect ==
    [][\A id \in DOMAIN sessions, raw \in RawNames :
            (JoinSession(id, raw) /\ sanitize(raw) # <<>>)
                => /\ resp' = Answer("join", 200, "", FALSE)
                   /\ emitted' = <<[type |-> "participant_joined", room |-> id,
                                    name |-> sanitize(raw)]>>
                   /\ sessions' = sessions
                   /\ \A p \in DOMAIN participants : participants'[p] = participants[p]
                   /\ Cardinality(DOMAIN participants' \ DOMAIN participants) = 1
                   /\ \A p \in DOMAIN participants' \ DOMAIN participants :
                        /\ participants'[p].session_id = id
                        /\ participants'[p].name = sanitize(raw)
                        /\ ~participants'[p].completed
                        /\ participants'[p].answers = NullAnswers]_vars

\* A participant has just joined a session that was already complete with
\* results; the session is still complete and the newcomer is not completed.
C18_Witness ==
    /\ resp = Answer("join", 200, "", FALSE)
    /\ Len(emitted) = 1 /\ emitted[1].type = "participant_joined"
    /\ sessions[emitted[1].room].status = "complete"
    /\ HasResults(sessions, emitted[1].room)
    /\ \E p \in Members(participants, emitted[1].room) : ~participants[p].completed

\* C19: SubmitAnswers with a participantId that does not belong to the given
\* session (no such participant, or a participant of another session) fails
\* with the not-found error, changes no participant and no session, starts
\* no synthesis and emits nothing.
C19_SubmitForeignParticipant ==
    [][\A id \in SessionIds, p \in ParticipantIds, a \in AnswerVals :
            (SubmitAnswers(id, p, a) /\ p \notin Members(participants, id))
                => /\ resp' = Answer("submit", 404, "Participant not found", FALSE)
                   /\ emitted' = <<>>
                   /\ UNCHANGED <<sessions, participants, pending, synthCalls,
                                  readyEvents>>]_vars

\* Two sessions are stored, each with its host as only participant, and a
\* submission naming one session and the other session's host was refused.
C19_Witness ==
    /\ resp = Answer("submit", 404, "Participant not found", FALSE)
    /\ DOMAIN sessions = {1, 2}
    /\ Members(participants, 1) = {1}
    /\ Members(participants, 2) = {2}

\* The escape entities, and whether one of them starts at position i of s.
Entities ==
    {<<"&", "a", "m", "p", ";">>, <<"&", "l", "t", ";">>, <<"&", "g", "t", ";">>,
     <<"&", "q", "u", "o", "t", ";">>, <<"&", "#", "x", "2", "7", ";">>}
EntityAt(s, i) ==
    \E e \in Entities :
        i + Len(e) - 1 <= Len(s) /\ SubSeq(s, i, i + Len(e) - 1) = e

\* C20: for every string input sanitize returns a string of at most 50
\* characters without <, >, double quote or single quote, in which every &
\* starts a complete escape entity and which has no leading or trailing
\* whitespace; every input that is not a string yields the empty string.
C20_SanitizeOutput ==
    probe.called
        => LET out == probe.output IN
           IF probe.input.type = "string"
           THEN /\ Len(out) <= 50
                /\ \A i \in 1..Len(out) : out[i] \notin {"<", ">", "\"", "'"}
                /\ \A i \in 1..Len(out) : out[i] = "&" => EntityAt(out, i)
                /\ out # <<>> => (out[1] # " " /\ out[Len(out)] # " ")
           ELSE out = <<>>

\* The answer_submitted event of participant p.
SubmittedEvent(ptab, id, p) ==
    [type |-> "answer_submitted", room |-> id, participantName |-> ptab[p].name]

\* The number of handlers of a kind suspended for a session.
PendingCount(id, kind) ==
    BagCardinality([h \in SuspendedFor(id, kind) |-> pending[h]])

\* C21 as stated: every successful SubmitAnswers emits exactly one
\* answer_submitted event, before anything else the call emits; a call that
\* triggers synthesis emits its results_ready afterwards, and only once the
\* results are written to the session.
C21_EventsAfterWrite ==
    [][\A h \in Suspended, service \in Services :
            SubmitResume(h, service)
                => /\ emitted' = <<ReadyEvent(h.id, generateResults(h.participants, service))>>
                   /\ h.id \in DOMAIN sessions'
                   /\ sessions'[h.id].results
                        = generateResults(h.participants, service)]_vars

\* C21 as amended: every successful SubmitAnswers emits exactly one
\* answer_submitted event in the part of the call that runs before the
\* synthesis; a call that triggers synthesis emits exactly one results_ready
\* after the synthesis, so after its answer_submitted, and after the update
\* that writes the results, which stores them in the session unless the
\* sweep purged it during the wait.
C21_EventOrder ==
    /\ [](\A s \in SessionIds :
            readyEvents[s] + PendingCount(s, "submit") = synthCalls[s])
    /\ [][/\ \A id \in SessionIds, p \in ParticipantIds, a \in AnswerVals :
                (SubmitAnswers(id, p, a) /\ p \in Members(participants, id))
                    => /\ emitted' = <<SubmittedEvent(participants, id, p)>>
                       /\ readyEvents' = readyEvents
          /\ \A h \in Suspended, service \in Services :
                SubmitResume(h, service)
                    => /\ emitted' = <<ReadyEvent(h.id, generateResults(h.participants, service))>>
                       /\ readyEvents' = [readyEvents EXCEPT ![h.id] = @ + 1]
                       /\ h.id \in DOMAIN sessions'
                            => sessions'[h.id].results
                                    = generateResults(h.participants, service)]_vars

\* The last of two submitters' call has emitted results_ready for a session
\* that holds the results of the event.
C21_Witness ==
    /\ resp = Answer("submit", 200, "", TRUE)
    /\ Len(emitted) = 1 /\ emitted[1].type = "results_ready"
    /\ emitted[1].room \in DOMAIN sessions
    /\ sessions[emitted[1].room].results = emitted[1].results
    /\ Cardinality(Done(participants, emitted[1].room)) = 2
    /\ readyEvents[emitted[1].room] = 1

\* C22: no step takes a session from lobby directly to complete: a session
\* is complete only after having been collecting.
C22_NoLobbyToComplete ==
    [][\A s \in DOMAIN sessions :
            (sessions[s].status = "lobby" /\ s \in DOMAIN sessions')
                => sessions'[s].status # "complete"]_vars

\* A session is complete with non-null results.
Finished(stab, id) ==
    id \in DOMAIN stab /\ stab[id].status = "complete" /\ HasResults(stab, id)

\* C23: if every participant of a session's roster has submitted, nobody
\* joins afterwards, the session is not purged and every synthesis call
\* returns, the session eventually is complete with non-null results, and a
\* results_ready event carrying them has been emitted for it.
C23_EventuallyComplete ==
    /\ [][\A id \in SessionIds, p \in ParticipantIds, a \in AnswerVals :
            (/\ SubmitAnswers(id, p, a)
             /\ p \in Members(participants, id)
             /\ AllDone(participants', id))
                => /\ sessions'[id].status = "complete"
                   /\ HasResults(sessions', id) \/ PendingCount(id, "submit")' > 0]_vars
    /\ [][\A s \in DOMAIN sessions' :
            (/\ HasResults(sessions', s)
             /\ s \in DOMAIN sessions => sessions'[s].results # sessions[s].results)
                => /\ sessions'[s].status = "complete"
                   /\ emitted' = <<ReadyEvent(s, sessions'[s].results)>>]_vars
    /\ \A s \in SessionIds :
            (s \in DOMAIN sessions /\ AllDone(participants, s) /\ ~HasResults(sessions, s))
                ~> \/ s \notin DOMAIN sessions
                   \/ ~AllDone(participants, s)
                   \/ Finished(sessions, s)

\* Both participants of a session have submitted, every synthesis has
\* returned, and the session is complete with results.
C23_Witness ==
    \E s \in DOMAIN sessions :
        /\ Cardinality(Members(participants, s)) = 2
        /\ AllDone(participants, s)
        /\ pending = EmptyBag
        /\ Finished(sessions, s)
        /\ synthCalls[s] = 1

\* C24 as stated: whenever SubmitAnswers or CloseEarly emits results_ready
\* for a session, the session is stored at that moment with status complete
\* and results equal to the payload of the event, also when the sweep ran
\* during the synthesis wait.
C24_ReadyEventMatchesStore ==
    [][\A h \in Suspended, service \in Services :
            (SubmitResume(h, service) \/ CloseResume(h, service))
                => /\ emitted' = <<ReadyEvent(h.id, generateResults(h.participants, service))>>
                   /\ h.id \in DOMAIN sessions'
                   /\ sessions'[h.id].status = "complete"
                   /\ sessions'[h.id].results = emitted'[1].results]_vars

\* C24 as amended: whenever SubmitAnswers or CloseEarly emits results_ready
\* for a session that is still stored, the session has at that moment status
\* complete and results equal to the payload of the event, whatever ran
\* during the synthesis wait; results_ready is emitted by these two handlers
\* only, and also for a session the sweep purged during the wait.
C24_ReadyEventMatchesStoredSession ==
    [][/\ \A h \in Suspended, service \in Services :
            (SubmitResume(h, service) \/ CloseResume(h, service))
                => /\ emitted' = <<ReadyEvent(h.id, generateResults(h.participants, service))>>
                   /\ h.id \in DOMAIN sessions'
                        => /\ sessions'[h.id].status = "complete"
                           /\ sessions'[h.id].results = emitted'[1].results
       /\ (\E i \in 1..Len(emitted') : emitted'[i].type = "results_ready")
            => \E h \in Suspended, service \in Services :
                    SubmitResume(h, service) \/ CloseResume(h, service)]_vars

\* results_ready has been emitted for a stored session that holds the
\* payload while another handler of the same session is still suspended.
C24_Witness ==
    /\ Len(emitted) = 1 /\ emitted[1].type = "results_ready"
    /\ emitted[1].room \in DOMAIN sessions
    /\ sessions[emitted[1].room].status = "complete"
    /\ sessions[emitted[1].room].results = emitted[1].results
    /\ \E h \in Suspended : h.id = emitted[1].room

\* The participant data a result was computed from, and the data stored now
\* for the roster of a session.
ComputedFrom(results) == {results.from[i] : i \in 1..Len(results.from)}
StoredData(ptab, id) ==
    {[id |-> p, answers |-> ptab[p].answers] : p \in Members(ptab, id)}

\* C25: once every participant of a session's roster has completed and no
\* synthesis is pending for the session, the stored results were computed
\* from the stored answers of all participants of the roster.
C25_ResultsCoverRoster ==
    \A s \in DOMAIN sessions :
        (/\ AllDone(participants, s)
         /\ PendingCount(s, "submit") = 0
         /\ PendingCount(s, "close") = 0)
            => /\ HasResults(sessions, s)
               /\ ComputedFrom(sessions[s].results) = StoredData(participants, s)

====
